---- MODULE Spec2Model ----
(***************************************************************************)
(* data-eater-core: the Snowflake identifier (snowflake.rs), its factory   *)
(* SnowflakeFactory, and consistent_hash (hashing.rs).                     *)
(*                                                                         *)
(* Unsigned integers wider than TLC's machine integers (u64, u128) are     *)
(* represented exactly, as the set of the positions of their one bits:     *)
(* {} is 0, {0} is 1, {43} is 2^43.  u16 values are plain integers.        *)
(***************************************************************************)
EXTENDS Integers, Sequences, FiniteSets, TLC

VARIABLES
    host_id,                \* what machine_uid::get() returned at construction
    machine_id,             \* SnowflakeFactory.machine_id            (u16)
    sequence_id,            \* SnowflakeFactory.sequence_id           (u16)
    last_timestamp_millis,  \* SnowflakeFactory.last_timestamp_millis (u64)
    overflow_checks,        \* the build checks integer overflow (debug, test)
    panicked,               \* a call of next() ended in a panic
    calls,                  \* number of calls of next() so far
    read,                   \* as_millis() of the clock reading of the last call
    prev_read,              \* ... and of the call before it
    out,                    \* the Snowflake the last call returned
    prev_out,               \* ... and the one the call before it returned
    run_pos,                \* position of the last call in its run of calls that
                            \* observed the same millisecond
    prev_run_pos,           \* ... and of the call before it in its run
    run,                    \* what that run's calls returned, in order: each
                            \* Snowflake with the fields its getters extract
    op,                     \* codec: the operation applied, "input" before it
    arg,                    \* codec: the inputs drawn
    result,                 \* codec: what the operation returned
    issued,                 \* shared factory: per call of next(), in issue order,
                            \* the caller, the clock reading and what it returned
    twin                    \* a second factory of the same process, with the
                            \* identifiers it has emitted

fvars == <<host_id, machine_id, sequence_id, last_timestamp_millis, overflow_checks,
          panicked>>
hvars == <<calls, read, prev_read, out, prev_out, run_pos, prev_run_pos,
          run>>
cvars == <<op, arg, result>>
svars == <<issued, twin>>
vars == <<fvars, hvars, cvars, svars>>

None == "None"
NoSnowflake == << >>    \* no Snowflake returned (yet, or the call panicked)

(***************************************************************************)
(* Bounds of the model.                                                    *)
(***************************************************************************)
MaxCalls == 4       \* Spec: calls of next() with free clock readings
BurstLen == 1026    \* SpecBurst: calls of next() in one millisecond
ExhaustLen == 65538 \* SpecExhaust: calls of next() in one millisecond
MaxShared == 4      \* SpecShared: calls of next() by all callers together
MaxTwin == 3        \* SpecTwin: calls of next() on each of the two factories

(***************************************************************************)
(* Arithmetic on unsigned integers as sets of bit positions.               *)
(***************************************************************************)
Pow2(i) == 2 ^ i

\* The bits of the small integer n (n < 2^30).
BitsOf(n) == {i \in 0..29 : (n \div Pow2(i)) % 2 = 1}

RECURSIVE ValueOf(_)
\* The small integer whose bits are b (b within 0..29).
ValueOf(b) ==
    IF b = {} THEN 0
    ELSE LET i == CHOOSE j \in b : TRUE IN Pow2(i) + ValueOf(b \ {i})

SetMax(s) == CHOOSE i \in s : \A j \in s : j <= i

\* a < b, as unsigned integers: the highest bit they differ in is b's.
BitsLt(a, b) == a # b /\ SetMax((a \ b) \cup (b \ a)) \in b

BitsLe(a, b) == a = b \/ BitsLt(a, b)

\* x << k, x >> k, x & mask of the low w bits, at unbounded width.
Shl(x, k) == {i + k : i \in x}
Shr(x, k) == {i - k : i \in {j \in x : j >= k}}
LowBits(x, w) == {i \in x : i < w}

RECURSIVE BitsAdd(_, _)
\* a + b at unbounded width: sum without carries, plus the carries.
BitsAdd(a, b) ==
    IF b = {} THEN a
    ELSE BitsAdd((a \ b) \cup (b \ a), Shl(a \cap b, 1))

\* The integer casts `as u64` and `as u16`.
AsU64(x) == LowBits(x, 64)
AsU16(x) == ValueOf(LowBits(x, 16))

(***************************************************************************)
(* hashing.rs                                                              *)
(***************************************************************************)
\* Byte k of x, and the sum over i + j = k of byte i of a times byte j of b.
Byte(x, k) == ValueOf(LowBits(Shr(x, 8 * k), 8))

RECURSIVE ColumnSum(_, _, _, _)
ColumnSum(a, b, k, i) ==
    IF i > k THEN 0
    ELSE Byte(a, i) * Byte(b, k - i) + ColumnSum(a, b, k, i + 1)

RECURSIVE MulFrom(_, _, _, _)
\* Bytes k..7 of a * b: long multiplication in base 256, the carry out of
\* byte 7 dropped.
MulFrom(a, b, k, carry) ==
    IF k = 8 THEN {}
    ELSE LET total == ColumnSum(a, b, k, 0) + carry
         IN  Shl(BitsOf(total % 256), 8 * k)
                 \cup MulFrom(a, b, k + 1, total \div 256)

\* u64::wrapping_mul: a * b modulo 2^64.
wrapping_mul(a, b) == MulFrom(a, b, 0, 0)

RECURSIVE pow_loop(_)
\* The loop of u64::wrapping_pow on its state [base, exp, acc], exp > 0.
pow_loop(st) ==
    LET acc == IF st.exp % 2 = 1 THEN wrapping_mul(st.acc, st.base) ELSE st.acc
    IN  IF st.exp = 1 THEN acc
        ELSE pow_loop([base |-> wrapping_mul(st.base, st.base),
                       exp |-> st.exp \div 2,
                       acc |-> acc])

\* u64::wrapping_pow(exp: u32): exponentiation by squaring, modulo 2^64.
wrapping_pow(base, exp) ==
    IF exp = 0 THEN BitsOf(1)
    ELSE pow_loop([base |-> base, exp |-> exp, acc |-> BitsOf(1)])

RECURSIVE hash_loop_djb2(_)
\* Mutant: the loop of the usual djb2 hash, hash * 33 + c.
hash_loop_djb2(st) ==
    IF st.v = << >> THEN st.hash
    ELSE hash_loop_djb2(
             [hash |-> AsU64(BitsAdd(wrapping_mul(st.hash, BitsOf(33)),
                                     BitsOf(Head(st.v)))),
              v |-> Tail(st.v)])

RECURSIVE hash_loop(_)
\* The loop of consistent_hash on its state [hash, v], v the bytes left.
hash_loop(st) ==
    IF st.v = << >> THEN st.hash
    ELSE hash_loop(
             [hash |-> wrapping_mul(st.hash,
                                    wrapping_pow(BitsOf(33), Head(st.v))),
              v |-> Tail(st.v)])

consistent_hash(v) == hash_loop([hash |-> BitsOf(5381), v |-> v])

(***************************************************************************)
(* snowflake.rs: the Snowflake bit field.  A Snowflake is the tuple struct *)
(* Snowflake(u64): <<bits>>.                                               *)
(***************************************************************************)
SNOWFLAKE_TIMESTAMP_MASK == 0..47   \* 0xFFFFFFFFFFFF

\* bitfield's getter: bits msb..lsb of the word, shifted down to bit 0.
bit_range(self, msb, lsb) == Shr(LowBits(self[1], msb + 1), lsb)

\* Mutant: a setter that ORs the shifted value in without truncating it to
\* the width of the field.
set_bit_range_carry(self, msb, lsb, value) ==
    << (self[1] \ (lsb..msb)) \cup Shl(value, lsb) >>

\* bitfield's setter: bits msb..lsb of the word become the low bits of value,
\* every other bit stays.
set_bit_range(self, msb, lsb, value) ==
    << (self[1] \ (lsb..msb)) \cup (Shl(value, lsb) \cap (lsb..msb)) >>

\* Mutant: the timestamp getter without the shift down to bit 0.
timestamp_raw_unshifted(self) == AsU64(LowBits(self[1], 63) \ (0..19))

\* Mutant: the timestamp field one bit wider, up to bit 63.
set_timestamp_raw_to_bit_63(self, value) == set_bit_range(self, 63, 20, value)

timestamp_raw(self) == AsU64(bit_range(self, 62, 20))
set_timestamp_raw(self, value) == set_bit_range(self, 62, 20, value)
machine_id_(self) == AsU16(bit_range(self, 19, 10))
set_machine_id_(self, value) == set_bit_range(self, 19, 10, BitsOf(value))
sequence_id_(self) == AsU16(bit_range(self, 9, 0))
\* Mutant: the sequence field one bit short, bits 8..0.
set_sequence_id_9_bits(self, value) == set_bit_range(self, 8, 0, BitsOf(value))
set_sequence_id_(self, value) == set_bit_range(self, 9, 0, BitsOf(value))

(***************************************************************************)
(* Instants.  A SystemTime at or after the epoch is                        *)
(* [millis |-> whole milliseconds since the epoch, sub_micros |-> the      *)
(* microseconds into that millisecond]; a DateTime<Utc> is                 *)
(* [micros |-> microseconds since the epoch].                              *)
(***************************************************************************)
\* Duration::as_millis of time.duration_since(UNIX_EPOCH): a u128.
as_millis(time) == time.millis

\* DateTime::from_timestamp_micros, on a count that is in chrono's range.
from_timestamp_micros(micros) == [micros |-> micros]

\* Mutant: the machine id and the sequence id set into each other's field.
Snowflake_new_swapped(m_id, s_id, time) ==
    LET s0 == << {} >>
        s1 == set_timestamp_raw(s0, AsU64(as_millis(time)))
        s2 == set_machine_id_(s1, s_id)
        s3 == set_sequence_id_(s2, m_id)
    IN  s3

\* Snowflake::new
Snowflake_new(m_id, s_id, time) ==
    LET s0 == << {} >>
        s1 == set_timestamp_raw(s0, AsU64(as_millis(time)))
        s2 == set_machine_id_(s1, m_id)
        s3 == set_sequence_id_(s2, s_id)
    IN  s3

\* Snowflake::timestamp
Snowflake_timestamp(self) == from_timestamp_micros(timestamp_raw(self))

\* Snowflake::machine_id, Snowflake::sequence_id
Snowflake_machine_id(self) == machine_id_(self)
Snowflake_sequence_id(self) == sequence_id_(self)

\* Snowflake::decompose
Snowflake_decompose(self) ==
    << Snowflake_timestamp(self), Snowflake_machine_id(self),
       Snowflake_sequence_id(self) >>

\* Mutant: the timestamp field instead of the whole word.
u64_from_timestamp(value) == timestamp_raw(value)

\* impl From<Snowflake> for u64
u64_from(value) == value[1]

SnowflakeFormatError == [ok |-> FALSE, err |-> "SnowflakeFormatError"]
Ok(v) == [ok |-> TRUE, val |-> v]

\* Mutant: the shift is by 62, so bit 62 decides.
Snowflake_try_from_bit62(value) ==
    IF Shr(value, 62) \cap BitsOf(1) = BitsOf(1)
    THEN SnowflakeFormatError
    ELSE Ok(<< value >>)

\* impl TryFrom<u64> for Snowflake
Snowflake_try_from(value) ==
    IF Shr(value, 63) \cap BitsOf(1) = BitsOf(1)
    THEN SnowflakeFormatError
    ELSE Ok(<< value >>)

\* u64's Ord.
u64_cmp(a, b) ==
    IF a = b THEN "Equal" ELSE IF BitsLt(a, b) THEN "Less" ELSE "Greater"

\* Mutant: an order by the timestamp field alone.
Snowflake_cmp_by_timestamp(a, b) == u64_cmp(timestamp_raw(a), timestamp_raw(b))

\* #[derive(Ord, PartialOrd)] on Snowflake(u64): the order of its one field.
Snowflake_cmp(a, b) == u64_cmp(a[1], b[1])

(***************************************************************************)
(* snowflake.rs: SnowflakeFactory                                          *)
(***************************************************************************)
\* machine_uid::get(): the host identifiers the model draws from, as bytes
\* ("a1", "7f").
HostIds == { <<97, 49>>, <<55, 102>> }

\* SnowflakeFactory::new, given what machine_uid::get() returned.
SnowflakeFactory_new(id) ==
    [machine_id |-> AsU16(consistent_hash(id)),
     sequence_id |-> 0,
     last_timestamp_millis |-> {}]

\* self.sequence_id += 1 on a u16.  Past u16::MAX the build decides: with
\* overflow checks (debug, test) the addition panics, without (release) it
\* wraps.  (The overflow checks are the build's, set once: a variable.)
sequence_overflows(self) == self.sequence_id + 1 >= Pow2(16)
sequence_add_one(self) == (self.sequence_id + 1) % Pow2(16)

\* next() with the reset of the sequence left out of the branch that stores
\* a new timestamp.
SnowflakeFactory_next_no_reset(self, timestamp, checked) ==
    LET timestamp_millis ==
            AsU64(as_millis(timestamp)) \cap SNOWFLAKE_TIMESTAMP_MASK
        same == self.last_timestamp_millis = timestamp_millis
    IN  IF same /\ sequence_overflows(self) /\ checked
        THEN [self |-> self, panic |-> TRUE, ret |-> NoSnowflake]
        ELSE LET after ==
                     IF same
                     THEN [self EXCEPT !.sequence_id = sequence_add_one(self)]
                     ELSE [self EXCEPT !.last_timestamp_millis = timestamp_millis]
             IN  [self |-> after, panic |-> FALSE,
                  ret |-> Snowflake_new(after.machine_id, after.sequence_id,
                                        timestamp)]

\* Mutant: next() with the sequence of the identifier drawn from a counter
\* that all the factories of the process share.
SnowflakeFactory_next_process_counter(self, timestamp, checked) ==
    LET timestamp_millis ==
            AsU64(as_millis(timestamp)) \cap SNOWFLAKE_TIMESTAMP_MASK
        same == self.last_timestamp_millis = timestamp_millis
    IN  IF same /\ sequence_overflows(self) /\ checked
        THEN [self |-> self, panic |-> TRUE, ret |-> NoSnowflake]
        ELSE LET after ==
                     IF same
                     THEN [self EXCEPT !.sequence_id = sequence_add_one(self)]
                     ELSE [self EXCEPT !.last_timestamp_millis = timestamp_millis,
                                       !.sequence_id = 0]
             IN  [self |-> after, panic |-> FALSE,
                  ret |-> Snowflake_new(after.machine_id, calls, timestamp)]

\* SnowflakeFactory::next, given the SystemTime::now() it read:
\* [self |-> the factory after the call, panic |-> whether it panicked,
\*  ret |-> the Snowflake returned].
SnowflakeFactory_next(self, timestamp, checked) ==
    LET timestamp_millis ==
            AsU64(as_millis(timestamp)) \cap SNOWFLAKE_TIMESTAMP_MASK
        same == self.last_timestamp_millis = timestamp_millis
    IN  IF same /\ sequence_overflows(self) /\ checked
        THEN [self |-> self, panic |-> TRUE, ret |-> NoSnowflake]
        ELSE LET after ==
                     IF same
                     THEN [self EXCEPT !.sequence_id = sequence_add_one(self)]
                     ELSE [self EXCEPT !.last_timestamp_millis = timestamp_millis,
                                       !.sequence_id = 0]
             IN  [self |-> after, panic |-> FALSE,
                  ret |-> Snowflake_new(after.machine_id, after.sequence_id,
                                        timestamp)]

(***************************************************************************)
(* The factory as a state machine.                                         *)
(***************************************************************************)
\* Clock readings, in whole milliseconds since the epoch: 0, 1, 2, 2^43 - 1,
\* 2^43, 2^43 + 1, 2^48, 2^48 + 1, 2^64.
Readings == { {}, {0}, {1}, 0..42, {43}, {0, 43}, {48}, {0, 48}, {64} }
SubMicros == {0, 999}
Times == [millis : Readings, sub_micros : SubMicros]

\* The readings of a burst of calls within one millisecond.
\* 0, 1, 2^48.
BurstReadings == { {}, {0}, {48} }
BurstTimes == [millis : BurstReadings, sub_micros : {500}]
ExhaustTimes == [millis : { {0} }, sub_micros : {0}]

Self == [machine_id |-> machine_id, sequence_id |-> sequence_id,
         last_timestamp_millis |-> last_timestamp_millis]

SameMillis(t) == calls > 0 /\ as_millis(t) = read

\* One call of next() that read the clock as t; record says whether the
\* identifiers of the run are kept.
CallNext(t, record) ==
    LET r == SnowflakeFactory_next(Self, t, overflow_checks)
        pos == IF SameMillis(t) THEN run_pos + 1 ELSE 1
        entry == [id |-> r.ret,
                  ts |-> timestamp_raw(r.ret),
                  seq |-> Snowflake_sequence_id(r.ret)]
    IN  /\ ~panicked
        /\ machine_id' = r.self.machine_id
        /\ sequence_id' = r.self.sequence_id
        /\ last_timestamp_millis' = r.self.last_timestamp_millis
        /\ panicked' = r.panic
        /\ UNCHANGED <<host_id, overflow_checks>>
        /\ calls' = calls + 1
        /\ prev_read' = read
        /\ read' = as_millis(t)
        /\ prev_out' = out
        /\ out' = r.ret
        /\ run_pos' = pos
        /\ prev_run_pos' = run_pos
        /\ run' = IF ~record \/ r.panic THEN run
                  ELSE IF pos = 1 THEN << entry >>
                  ELSE Append(run, entry)
        /\ UNCHANGED cvars

FactoryInit ==
    /\ \E id \in HostIds :
          LET f == SnowflakeFactory_new(id)
          IN  /\ host_id = id
              /\ machine_id = f.machine_id
              /\ sequence_id = f.sequence_id
              /\ last_timestamp_millis = f.last_timestamp_millis
              /\ twin = [self |-> SnowflakeFactory_new(id), panicked |-> FALSE,
                         stream |-> << >>]
    /\ issued = << >>
    /\ overflow_checks \in BOOLEAN
    /\ panicked = FALSE
    /\ calls = 0
    /\ read = None
    /\ prev_read = None
    /\ out = NoSnowflake
    /\ prev_out = NoSnowflake
    /\ run_pos = 0
    /\ prev_run_pos = 0
    /\ run = << >>
    /\ op = "factory"
    /\ arg = None
    /\ result = None

Init == FactoryInit

\* next() with the clock free to show any reading, also an earlier one.
Call ==
    /\ calls < MaxCalls
    /\ \E t \in Times : CallNext(t, TRUE)
    /\ UNCHANGED svars

Next == Call

Spec == Init /\ [][Next]_vars

\* next() again and again within one millisecond: the clock may show another
\* reading (a later or an earlier one) between the first two calls only.
BurstCall ==
    /\ calls < BurstLen
    /\ \E t \in BurstTimes :
          /\ calls > 1 => as_millis(t) = read
          /\ CallNext(t, TRUE)
    /\ UNCHANGED svars

NextBurst == BurstCall

SpecBurst == Init /\ [][NextBurst]_vars

\* next() again and again within the millisecond of the first call, for long
\* enough to exhaust the u16 counter; the identifiers of the run are not kept.
ExhaustCall ==
    /\ calls < ExhaustLen
    /\ \E t \in ExhaustTimes :
          /\ calls > 0 => as_millis(t) = read
          /\ CallNext(t, FALSE)
    /\ UNCHANGED svars

NextExhaust == ExhaustCall

SpecExhaust == Init /\ [][NextExhaust]_vars

(***************************************************************************)
(* One factory shared by several callers.  next() takes &mut self, so the  *)
(* calls of the callers on one factory are serialized: each call is one    *)
(* atomic step, and the callers' steps interleave in any order.            *)
(***************************************************************************)
Callers == {"c1", "c2"}
\* 0, 1, 2, 2^43 + 1.
SharedReadings == { {}, {0}, {1}, {0, 43} }
SharedTimes == [millis : SharedReadings, sub_micros : {0}]

\* One call of next() with the clock at t, on behalf of caller c.
IssueNext(c, t) ==
    /\ CallNext(t, TRUE)
    /\ issued' = Append(issued, [caller |-> c, time |-> t, id |-> out'])

SharedCall(c) ==
    /\ calls < MaxShared
    /\ \E t \in SharedTimes : IssueNext(c, t)
    /\ UNCHANGED twin

NextShared == \E c \in Callers : SharedCall(c)

SpecShared == Init /\ [][NextShared]_vars

(***************************************************************************)
(* Two factories in one process, constructed from the same host id.  The   *)
(* second is driven by the clock readings the first one saw, in order.     *)
(***************************************************************************)
\* 0, 1, 2^43 + 1.
TwinReadings == { {}, {0}, {0, 43} }
TwinTimes == [millis : TwinReadings, sub_micros : {0}]

TwinFirst ==
    /\ calls < MaxTwin
    /\ \E t \in TwinTimes : IssueNext("first", t)
    /\ UNCHANGED twin

TwinSecond ==
    LET n == Len(twin.stream)
    IN  /\ ~twin.panicked
        /\ n < Len(issued)
        /\ LET r == SnowflakeFactory_next(twin.self, issued[n + 1].time,
                                          overflow_checks)
           IN  twin' = [self |-> r.self, panicked |-> r.panic,
                        stream |-> Append(twin.stream, r.ret)]
        /\ UNCHANGED <<fvars, hvars, cvars, issued>>

NextTwin == TwinFirst \/ TwinSecond

SpecTwin == Init /\ [][NextTwin]_vars

(***************************************************************************)
(* The codec's pure functions, applied to inputs drawn in CodecInit.       *)
(***************************************************************************)
RawBits == {0, 9, 10, 19, 20, 62, 63}
\* Raw u64 values: every combination of the bits at the edges of the fields,
\* and u64::MAX.
RawValues == (SUBSET RawBits) \cup { 0..63 }
\* 0, 1, 2^30, 2^43 - 1, 2^43, 2^43 + 1 milliseconds.
CodecTimes == [millis : { {}, {0}, {30}, 0..42, {43}, {0, 43} },
               sub_micros : SubMicros]
FieldValues == {0, 1, 1023, 1024, 65535}
\* Values handed to a setter: 0, 1, 1023, 1024, 1025, 65535 (u16 and u64),
\* 2^43 - 1, 2^43, 2^43 + 1 (u64).
SetValues16 == { {}, {0}, 0..9, {10}, {0, 10}, 0..15 }
SetValues64 == SetValues16 \cup { 0..42, {43}, {0, 43} }
\* Byte strings to hash: the empty one, single bytes, the host ids "a1" and
\* "7f" and their reversals, strings of equal byte sums (146; 6; 255), the
\* largest bytes.
HashInputs ==
    { << >>, <<0>>, <<1>>, <<255>>, <<146>>, <<97, 49>>, <<49, 97>>,
      <<55, 102>>, <<102, 55>>, <<6>>, <<1, 2, 3>>, <<3, 1, 2>>, <<2, 2, 2>>,
      <<254, 1>>, <<255, 255>>, <<255, 255, 255>> }

CodecInputs ==
    [kind : {"raw"}, x : RawValues]
        \cup [kind : {"pair"}, a : {<<x>> : x \in RawValues},
                               b : {<<x>> : x \in RawValues}]
        \cup [kind : {"fields"}, t : CodecTimes, n : FieldValues, s : FieldValues]
        \cup [kind : {"set"}, x : {<<x>> : x \in RawValues},
                              field : {"timestamp_raw"}, value : SetValues64]
        \cup [kind : {"set"}, x : {<<x>> : x \in RawValues},
                              field : {"machine_id_", "sequence_id_"},
                              value : SetValues16]
        \cup [kind : {"bytes"}, v : HashInputs]

CodecInit ==
    /\ arg \in CodecInputs
    /\ op = "input"
    /\ result = None
    /\ host_id = None
    /\ machine_id = None
    /\ sequence_id = None
    /\ last_timestamp_millis = None
    /\ overflow_checks = FALSE
    /\ panicked = FALSE
    /\ calls = 0
    /\ read = None
    /\ prev_read = None
    /\ out = NoSnowflake
    /\ prev_out = NoSnowflake
    /\ run_pos = 0
    /\ prev_run_pos = 0
    /\ run = << >>
    /\ issued = << >>
    /\ twin = [self |-> None, panicked |-> FALSE, stream |-> << >>]

Apply(name, value) ==
    /\ op' = name
    /\ result' = value
    /\ UNCHANGED <<arg, fvars, hvars, svars>>

TryFrom ==
    /\ op = "input" /\ arg.kind = "raw"
    /\ Apply("try_from", Snowflake_try_from(arg.x))

IntoU64 ==
    /\ op = "try_from" /\ result.ok
    /\ Apply("u64_from", u64_from(result.val))

Compare ==
    /\ op = "input" /\ arg.kind = "pair"
    /\ Apply("cmp", Snowflake_cmp(arg.a, arg.b))

New ==
    /\ op = "input" /\ arg.kind = "fields"
    /\ Apply("new", Snowflake_new(arg.n, arg.s, arg.t))

Decompose ==
    /\ op = "new"
    /\ Apply("decompose", Snowflake_decompose(result))

Timestamp ==
    /\ op = "new"
    /\ Apply("timestamp", Snowflake_timestamp(result))

\* A valid identifier built again by Snowflake::new from its three raw
\* fields, the timestamp field as that many milliseconds after the epoch.
Reencode ==
    /\ op = "try_from" /\ result.ok
    /\ Apply("reencode",
             Snowflake_new(Snowflake_machine_id(result.val),
                           Snowflake_sequence_id(result.val),
                           [millis |-> timestamp_raw(result.val),
                            sub_micros |-> 0]))

\* The bitfield's setters, each on any word.
SetTimestampRaw ==
    /\ op = "input" /\ arg.kind = "set" /\ arg.field = "timestamp_raw"
    /\ Apply("set_timestamp_raw", set_timestamp_raw(arg.x, arg.value))

SetMachineId ==
    /\ op = "input" /\ arg.kind = "set" /\ arg.field = "machine_id_"
    /\ Apply("set_machine_id_", set_machine_id_(arg.x, ValueOf(arg.value)))

SetSequenceId ==
    /\ op = "input" /\ arg.kind = "set" /\ arg.field = "sequence_id_"
    /\ Apply("set_sequence_id_", set_sequence_id_(arg.x, ValueOf(arg.value)))

Hash ==
    /\ op = "input" /\ arg.kind = "bytes"
    /\ Apply("consistent_hash", consistent_hash(arg.v))

NextCodec ==
    \/ TryFrom \/ IntoU64 \/ Compare \/ New \/ Decompose \/ Timestamp
    \/ SetTimestampRaw \/ SetMachineId \/ SetSequenceId
    \/ Reencode
    \/ Hash

SpecCodec == CodecInit /\ [][NextCodec]_vars

(***************************************************************************)
(* Properties.                                                             *)
(***************************************************************************)
\* 1000 * x = (512 + 256 + 128 + 64 + 32 + 8) * x
Mul1000(x) ==
    BitsAdd(BitsAdd(BitsAdd(Shl(x, 9), Shl(x, 8)), BitsAdd(Shl(x, 7), Shl(x, 6))),
            BitsAdd(Shl(x, 5), Shl(x, 3)))

\* t milliseconds after the epoch, as a DateTime<Utc>.
MillisAfterEpoch(t) == [micros |-> Mul1000(t)]

\* The raw value of a Snowflake as digits, most significant first: bit 63,
\* the timestamp field (its high 13 bits, its low 30 bits), the machine id
\* field, the sequence field.
FieldDigits(s) ==
    << IF 63 \in u64_from(s) THEN 1 ELSE 0,
       ValueOf(Shr(timestamp_raw(s), 30)),
       ValueOf(LowBits(timestamp_raw(s), 30)),
       Snowflake_machine_id(s),
       Snowflake_sequence_id(s) >>

RECURSIVE LexCmp(_, _)
\* Lexicographic comparison of two tuples of integers of one length.
LexCmp(k1, k2) ==
    IF k1 = << >> THEN "Equal"
    ELSE IF Head(k1) < Head(k2) THEN "Less"
    ELSE IF Head(k1) > Head(k2) THEN "Greater"
    ELSE LexCmp(Tail(k1), Tail(k2))

Reverse(ordering) ==
    CASE ordering = "Less" -> "Greater"
      [] ordering = "Greater" -> "Less"
      [] OTHER -> ordering

\* C1: of two successive calls a = next(); b = next() on one factory, b > a
\* as unsigned 64-bit values whenever the clock did not move backward between
\* them and fewer than 1024 calls occurred within the millisecond of a.
C1_SuccessiveIdsIncrease ==
    (/\ calls >= 2
     /\ prev_out # NoSnowflake /\ out # NoSnowflake
     /\ BitsLe(prev_read, read)
     /\ prev_run_pos < Pow2(10))
        => Snowflake_cmp(prev_out, out) = "Less"

\* C2: in a run of consecutive calls that all observe the same millisecond,
\* the first 1024 identifiers are pairwise distinct, and so are their sequence
\* fields: in every state the identifier returned last, when among the first
\* 1024 of its run, differs from every earlier one of the run (every prefix
\* of a run is the run of an earlier state).
C2_FirstIdsOfRunDistinct ==
    LET n == Len(run)
    IN  (0 < n /\ n <= Pow2(10))
            => \A i \in 1..(n - 1) :
                   /\ run[i].id # run[n].id
                   /\ run[i].seq # run[n].seq

C2_Witness ==
    /\ Len(run) = Pow2(10)
    /\ run[1].seq = 1
    /\ run[Pow2(10)].seq = 0

\* C3: the machine id field of every identifier a factory returns is the low
\* 10 bits of the 16-bit hash computed at construction, the same for all
\* calls, and next() leaves the factory's machine_id as constructed.
Hash16 == [id \in HostIds |-> AsU16(consistent_hash(id))]

C3_MachineIdStable ==
    calls > 0 =>
        LET hash16 == Hash16[host_id]
        IN  /\ machine_id = hash16
            /\ \A o \in {out, prev_out} \ {NoSnowflake} :
                   Snowflake_machine_id(o) = hash16 % Pow2(10)

C3_Witness ==
    /\ calls >= 2
    /\ out # NoSnowflake /\ prev_out # NoSnowflake
    /\ read # prev_read
    /\ machine_id >= Pow2(10)
    /\ Snowflake_machine_id(out) = Snowflake_machine_id(prev_out)

\* C4: Snowflake::try_from(u64) returns SnowflakeFormatError exactly when bit
\* 63 of the input is set, and otherwise the Snowflake of exactly that value.
C4_TryFromRejectsBit63 ==
    op = "try_from" =>
        IF 63 \in arg.x
        THEN result = SnowflakeFormatError
        ELSE result = Ok(<< arg.x >>)

C4_Witness ==
    /\ op = "try_from"
    /\ arg.x = 0..63
    /\ result = SnowflakeFormatError

\* C5: for a raw value x with bit 63 clear, u64::from(Snowflake::try_from(x))
\* is exactly x.
C5_RawRoundTrip ==
    /\ op = "u64_from" => result = arg.x
    /\ (op = "try_from" /\ 63 \notin arg.x) =>
           result.ok /\ u64_from(result.val) = arg.x

C5_Witness ==
    /\ op = "u64_from"
    /\ arg.x = RawBits \ {63}
    /\ result = arg.x

\* C6: for t < 2^43, n < 2^10, s < 2^10, decomposing the Snowflake encoded
\* from (t, n, s) yields (t, n, s) again: the instant t milliseconds after the
\* epoch, n and s.
C6_DecomposeInvertsEncode ==
    (/\ op = "decompose"
     /\ BitsLt(as_millis(arg.t), {43})
     /\ arg.n < Pow2(10) /\ arg.s < Pow2(10))
        => result = << MillisAfterEpoch(as_millis(arg.t)), arg.n, arg.s >>

\* C7: when 1025 consecutive calls all observe the same millisecond, the
\* identifier at position 1025 has sequence field 0 again and the timestamp
\* field of position 1, and equals the identifier at position 1.
C7_WrapDuplicatesFirst ==
    Len(run) >= Pow2(10) + 1 =>
        /\ run[Pow2(10) + 1].seq = 0
        /\ run[Pow2(10) + 1].ts = run[1].ts
        /\ run[Pow2(10) + 1].id = run[1].id

\* C8: however many consecutive calls observe the same millisecond, every
\* call returns an identifier and none panics.
C8_ExhaustionNeverPanics ==
    /\ ~panicked
    /\ calls > 0 => out # NoSnowflake

\* C9: the order of Snowflakes is the unsigned numeric order of their raw
\* values, a total order; for two identifiers with bit 63 clear it is the
\* lexicographic order of (timestamp, machine id, sequence).
C9_OrderIsFieldLexicographic ==
    op = "cmp" =>
        /\ result = LexCmp(FieldDigits(arg.a), FieldDigits(arg.b))
        /\ result = "Equal" <=> arg.a = arg.b
        /\ Snowflake_cmp(arg.b, arg.a) = Reverse(result)

C9_Witness ==
    /\ op = "cmp"
    /\ arg.a = << {9, 19} >>
    /\ arg.b = << {20} >>
    /\ result = "Less"

\* C10: timestamp(id) of an identifier built from a clock reading of m
\* milliseconds since the epoch (m < 2^43) is the instant m milliseconds
\* after the epoch.
C10_TimestampSameUnit ==
    (op = "timestamp" /\ BitsLt(as_millis(arg.t), {43}))
        => result = MillisAfterEpoch(as_millis(arg.t))

\* C11: when several callers share one factory and every call of next() is
\* atomic, then in every interleaving, provided the clock never moved
\* backward (and no millisecond received more than 1024 calls, which the
\* bound on the calls guarantees), the identifiers issued are pairwise
\* distinct and non-decreasing in issue order.
C11_SharedIdsDistinctOrdered ==
    LET n == Len(issued)
    IN  (\A i \in 1..(n - 1) :
            BitsLe(as_millis(issued[i].time), as_millis(issued[i + 1].time)))
        => \A i \in 1..n : \A j \in (i + 1)..n :
              /\ issued[i].id # issued[j].id
              /\ Snowflake_cmp(issued[i].id, issued[j].id) # "Greater"

\* The clock reading of the last call as next() compares and stores it.
MaskedReading == AsU64(read) \cap SNOWFLAKE_TIMESTAMP_MASK

C13_LastTimestampIsField ==
    /\ (calls > 0 /\ out # NoSnowflake) =>
           /\ BitsLt(last_timestamp_millis, {43})
           /\ last_timestamp_millis = timestamp_raw(out)
    /\ (calls > 1 /\ out # NoSnowflake /\ prev_out # NoSnowflake) =>
           ((AsU64(prev_read) \cap SNOWFLAKE_TIMESTAMP_MASK = MaskedReading)
              <=> timestamp_raw(prev_out) = timestamp_raw(out))

\* C14: when the clock moves backward between two calls, the second call
\* treats the smaller reading as a different timestamp: it sets last_timestamp
\* to it, resets the sequence to 0 and emits an identifier whose timestamp
\* field is smaller than the previous one's, so that the new identifier
\* compares lower than the previous one.
C14_BackwardClockResets ==
    (calls > 1 /\ out # NoSnowflake /\ prev_out # NoSnowflake
       /\ BitsLt(read, prev_read))
    => /\ last_timestamp_millis = MaskedReading
       /\ sequence_id = 0
       /\ Snowflake_sequence_id(out) = 0
       /\ BitsLt(timestamp_raw(out), timestamp_raw(prev_out))
       /\ Snowflake_cmp(out, prev_out) = "Less"

\* The bits of a word outside the field at bits msb..lsb.
OutsideField(self, msb, lsb) == self[1] \ (lsb..msb)

\* C15: the encoding is fixed-width with no carry: a value wider than its
\* field (43, 10 and 10 bits) is stored as its low bits only, and setting one
\* field leaves the bits of the other two fields and bit 63 unchanged; so
\* Snowflake::new stores the low bits of each of its three arguments and
\* leaves bit 63 clear.
C15_SettersTruncateNoCarry ==
    /\ op = "set_timestamp_raw" =>
          /\ timestamp_raw(result) = LowBits(arg.value, 43)
          /\ OutsideField(result, 62, 20) = OutsideField(arg.x, 62, 20)
    /\ op = "set_machine_id_" =>
          /\ machine_id_(result) = ValueOf(arg.value) % Pow2(10)
          /\ OutsideField(result, 19, 10) = OutsideField(arg.x, 19, 10)
    /\ op = "set_sequence_id_" =>
          /\ sequence_id_(result) = ValueOf(arg.value) % Pow2(10)
          /\ OutsideField(result, 9, 0) = OutsideField(arg.x, 9, 0)
    /\ op = "new" =>
          /\ timestamp_raw(result) = LowBits(as_millis(arg.t), 43)
          /\ machine_id_(result) = arg.n % Pow2(10)
          /\ sequence_id_(result) = arg.s % Pow2(10)
          /\ 63 \notin u64_from(result)

\* Sequence 1024 set into the word whose 64 bits are all ones: the field is
\* 0 and every other bit is still one.
C15_Witness ==
    /\ op = "set_sequence_id_"
    /\ arg.x = << 0..63 >>
    /\ arg.value = {10}
    /\ result = << 10..63 >>

\* C16: every identifier next() emits has bit 63 clear, so converting it to
\* u64 and back with try_from succeeds and returns the same identifier.
C16_EmittedIdsConvertBack ==
    \A o \in {out, prev_out} \ {NoSnowflake} :
        /\ 63 \notin u64_from(o)
        /\ Snowflake_try_from(u64_from(o)) = Ok(o)

\* next() has emitted an identifier at a clock reading whose bit 43, the
\* first bit above the timestamp field, is set.
C16_Witness ==
    /\ out # NoSnowflake
    /\ 43 \in read
    /\ Snowflake_try_from(u64_from(out)) = Ok(out)

C18_FirstIdOfMillisecondIsZero ==
    (run_pos = 1 /\ out # NoSnowflake) => Snowflake_sequence_id(out) = 0

RECURSIVE SumOfBytes(_)
SumOfBytes(v) == IF v = << >> THEN 0 ELSE Head(v) + SumOfBytes(Tail(v))

\* C20: consistent_hash(v) is 5381 * 33^(the sum of the bytes of v) modulo
\* 2^64: 5381 for the empty input, the same for every permutation of the
\* bytes and for any two inputs of equal byte sums, so the node id derived
\* from it depends on the byte sum of the host identifier only.
C20_HashIsPowerOfByteSum ==
    op = "consistent_hash" =>
        /\ result = wrapping_mul(BitsOf(5381),
                                 wrapping_pow(BitsOf(33), SumOfBytes(arg.v)))
        /\ arg.v = << >> => result = BitsOf(5381)

\* The host id "1a" has been hashed, to the node id of the host id "a1".
C20_Witness ==
    /\ op = "consistent_hash"
    /\ arg.v = <<49, 97>>
    /\ AsU16(result) = Hash16[<<97, 49>>]
====
